---- MODULE Spec2Model ----
(***************************************************************************)
(* A model of ignite-client-rust: the wire codec of src/src/protocol.rs    *)
(* (with the field lengths of src/src/len.rs) and the client of            *)
(* src/src/ignite_client.rs.                                               *)
(*                                                                         *)
(* A byte is a number in 0..255, a buffer (&[u8], BytesMut) and a String   *)
(* (its UTF-8 bytes) are sequences of bytes.  TLC's integers are 32 bits   *)
(* wide, so an i64 is kept as its two 32-bit words [hi, lo], each read as  *)
(* an i32.  The outcome of a decoder is a record whose tag is "ok", "err"  *)
(* (an io::Error, kind holding its ErrorKind) or "panic" (a slice index    *)
(* out of range aborts the call).                                          *)
(***************************************************************************)
EXTENDS Integers, Sequences, FiniteSets, TLC

VARIABLES
    stream,       \* IgniteClient.stream: "None" or "Some"
    request_id,   \* IgniteClient.request_id
    pc,           \* where the call in flight is suspended: "idle" when there is none
    call,         \* the call in flight or, when idle, the last one, with what it did
    inbound,      \* the bytes the peer has sent on the stream that are still unread
    faults,       \* the transport: how many more I/O operations will fail
    conn,         \* history of the current connection (since the last connect())
    allIds,       \* history: the request ids allocated since new(), in order
    encReqs,      \* SpecEncode: the last requests encoded (at most two), oldest first
    encFrames,    \* SpecEncode: what encode() returned for each of them
    encWire,      \* SpecEncode: the bytes written to the stream for them, in order
    decIn,        \* SpecDecode: the decoder's input (what, data and how it was built)
    decOut        \* SpecDecode: the decoder's outcome (or NotRun)

encVars == <<encReqs, encFrames, encWire>>
decVars == <<decIn, decOut>>
codecVars == <<encReqs, encFrames, encWire, decIn, decOut>>
clientVars == <<stream, request_id, pc, call, inbound, faults, conn, allIds>>
vars == <<stream, request_id, pc, call, inbound, faults, conn, allIds,
          encReqs, encFrames, encWire, decIn, decOut>>

(***************************************************************************)
(* Bounds of the model.                                                    *)
(***************************************************************************)
MaxStrLen == 2      \* longest string of a request
MaxArgCount == 2    \* largest query_arg_count of a request
MaxMsgLen == 2      \* longest error message or column name of a response
MaxCols == 2        \* most column entries of a QuerySqlFields response body
MaxRequests == 2    \* most query calls made on one client
MaxHandshakes == 2  \* most handshake calls made on one connection
MaxConnects == 2    \* most connect() calls made on one client
MaxFaults == 1      \* most I/O operations that fail in one run

(***************************************************************************)
(* Fixed-width little-endian integers (bytes::BufMut::put_*_le,            *)
(* iN::from_le_bytes).                                                     *)
(***************************************************************************)
Byte == 0..255

PutI16(n) == <<n % 256, (n \div 256) % 256>>

PutI32(n) == <<n % 256, (n \div 256) % 256, (n \div 65536) % 256, (n \div 16777216) % 256>>

I64(n) == [hi |-> IF n < 0 THEN -1 ELSE 0, lo |-> n]

PutI64(v) == PutI32(v.lo) \o PutI32(v.hi)

I16FromLe(b0, b1) == IF b1 >= 128 THEN b0 + 256 * (b1 - 256) ELSE b0 + 256 * b1

I32FromLe(b0, b1, b2, b3) ==
    b0 + 256 * b1 + 65536 * b2 + 16777216 * (IF b3 >= 128 THEN b3 - 256 ELSE b3)

\* i64::from_le_bytes of the 8 bytes of d that start with its at-th (from 1).
I64FromLe(d, at) ==
    [hi |-> I32FromLe(d[at + 4], d[at + 5], d[at + 6], d[at + 7]),
     lo |-> I32FromLe(d[at], d[at + 1], d[at + 2], d[at + 3])]

BoolByte(b) == IF b THEN 1 ELSE 0

(***************************************************************************)
(* src/src/len.rs                                                          *)
(***************************************************************************)
CACHE_ID == 4
COLLOCATED == 1
CURSOR_PAGE_SIZE == 4
DISTRIBUTED_JOIN == 1
ENFORCE_JOIN_ORDER == 1
INCLUDE_FIELD_NAMES == 1
LAZY == 1
LOCAL_QUERY == 1
MAX_ROWS == 4
QUERY_ARG_COUNT == 4
REPLICATED_ONLY == 1
STATEMENT_TYPE == 1
TIMEOUT == 8

LenStrNoMarker(s) == 4 + Len(s)

LenStr(s) == 1 + 4 + Len(s)

(***************************************************************************)
(* Requests.  A request is a record; kind is "handshake", "query_sql" or   *)
(* "query_sql_fields" (the type of the value; RequestType for the last     *)
(* two).                                                                   *)
(***************************************************************************)
HandshakeRequestLength(r) ==
    1 + 2 + 2 + 2 + 1 + 4 + Len(r.username) + 4 + Len(r.password)

HandshakeRequestEncode(r) ==
    PutI32(HandshakeRequestLength(r))
        \o <<1>>
        \o PutI16(r.major_version) \o PutI16(r.minor_version) \o PutI16(r.patch_version)
        \o <<2>>
        \o PutI32(Len(r.username)) \o r.username
        \o PutI32(Len(r.password)) \o r.password

QuerySqlRequestLength(r) ==
    CACHE_ID + 1 + LenStr(r.table) + LenStr(r.sql) + QUERY_ARG_COUNT
        + DISTRIBUTED_JOIN + LOCAL_QUERY + REPLICATED_ONLY + CURSOR_PAGE_SIZE + TIMEOUT

QuerySqlRequestEncode(r) ==
    PutI32(r.cache_id)
        \o <<0>>
        \o <<9>> \o PutI32(Len(r.table)) \o r.table
        \o <<9>> \o PutI32(Len(r.sql)) \o r.sql
        \o PutI32(r.query_arg_count)
        \o <<BoolByte(r.distributed_join), BoolByte(r.local_query), BoolByte(r.replicated_only)>>
        \o PutI32(r.cursor_page_size)
        \o PutI64(r.timeout_milliseconds)

QuerySqlFieldsRequestLength(r) ==
    CACHE_ID + 1 + LenStr(r.schema) + CURSOR_PAGE_SIZE + MAX_ROWS + LenStr(r.sql)
        + QUERY_ARG_COUNT + STATEMENT_TYPE + DISTRIBUTED_JOIN + LOCAL_QUERY
        + REPLICATED_ONLY + ENFORCE_JOIN_ORDER + COLLOCATED + LAZY + TIMEOUT
        + INCLUDE_FIELD_NAMES

QuerySqlFieldsRequestEncode(r) ==
    PutI32(r.cache_id)
        \o <<0>>
        \o <<9>> \o PutI32(Len(r.schema)) \o r.schema
        \o PutI32(r.cursor_page_size)
        \o PutI32(r.max_rows)
        \o <<9>> \o PutI32(Len(r.sql)) \o r.sql
        \o PutI32(r.query_arg_count)
        \o <<r.statement_type>>
        \o <<BoolByte(r.distributed_join), BoolByte(r.local_query), BoolByte(r.replicated_only),
             BoolByte(r.enforce_join_order), BoolByte(r.collocated), BoolByte(r.lazy)>>
        \o PutI64(r.timeout_milliseconds)
        \o <<BoolByte(r.include_field_names)>>

OP_QUERY_SQL == 2002
OP_QUERY_SQL_FIELDS == 2004

NewQuerySql(id, r) ==
    [kind |-> "request", op_code |-> OP_QUERY_SQL, request_id |-> id, body |-> r]

NewQuerySqlFields(id, r) ==
    [kind |-> "request", op_code |-> OP_QUERY_SQL_FIELDS, request_id |-> id, body |-> r]

RequestLength(q) ==
    2 + 8 + (IF q.body.kind = "query_sql"
             THEN QuerySqlRequestLength(q.body)
             ELSE QuerySqlFieldsRequestLength(q.body))

RequestEncode(q) ==
    PutI32(RequestLength(q))
        \o PutI16(q.op_code)
        \o PutI64(I64(q.request_id))
        \o (IF q.body.kind = "query_sql"
            THEN QuerySqlRequestEncode(q.body)
            ELSE QuerySqlFieldsRequestEncode(q.body))

\* Encode::encode and Encode::length of whichever value is written as one frame.
Encode(m) == IF m.kind = "handshake" THEN HandshakeRequestEncode(m) ELSE RequestEncode(m)

Length(m) == IF m.kind = "handshake" THEN HandshakeRequestLength(m) ELSE RequestLength(m)

(***************************************************************************)
(* Decoders.  At(d, i) is d[i] of the source (indices from 0); an index or *)
(* a slice range past the end of d panics.  A length read as a negative    *)
(* i32 becomes, as usize, at least 2^63: the slice it bounds is out of     *)
(* range of every buffer (or its offset overflows), which panics too.      *)
(***************************************************************************)
At(d, i) == d[i + 1]

Slice(d, from, to) == SubSeq(d, from + 1, to)

Ok(v) == [tag |-> "ok", value |-> v]

Err(kind) == [tag |-> "err", kind |-> kind]

Panic == [tag |-> "panic"]

IsCont(b) == b >= 128 /\ b <= 191

\* core::str::from_utf8's validation: the well-formed byte sequences of UTF-8.
RECURSIVE Utf8Valid(_)
Utf8Valid(s) ==
    IF s = <<>> THEN TRUE
    ELSE LET n == Len(s)
             b == s[1]
         IN  IF b < 128 THEN Utf8Valid(Tail(s))
             ELSE IF b >= 194 /\ b <= 223
                  THEN n >= 2 /\ IsCont(s[2]) /\ Utf8Valid(SubSeq(s, 3, n))
             ELSE IF b >= 224 /\ b <= 239
                  THEN /\ n >= 3
                       /\ IsCont(s[2])
                       /\ (b = 224 => s[2] >= 160)
                       /\ (b = 237 => s[2] <= 159)
                       /\ IsCont(s[3])
                       /\ Utf8Valid(SubSeq(s, 4, n))
             ELSE IF b >= 240 /\ b <= 244
                  THEN /\ n >= 4
                       /\ IsCont(s[2])
                       /\ (b = 240 => s[2] >= 144)
                       /\ (b = 244 => s[2] <= 143)
                       /\ IsCont(s[3])
                       /\ IsCont(s[4])
                       /\ Utf8Valid(SubSeq(s, 5, n))
             ELSE FALSE

\* String::from_utf8(bytes).map_err(InvalidData)
FromUtf8(bytes) == IF Utf8Valid(bytes) THEN Ok(bytes) ELSE Err("InvalidData")

HandshakeResponseDecode(data) ==
    IF data = <<>> THEN Err("Other")
    ELSE IF At(data, 0) = 1 THEN Ok([variant |-> "Success"])
    ELSE IF Len(data) < 7 THEN Panic
    ELSE LET error_message == FromUtf8(Slice(data, 7, Len(data)))
         IN  IF error_message.tag # "ok" THEN error_message
             ELSE Ok([variant |-> "Failure",
                      major_version |-> I16FromLe(At(data, 1), At(data, 2)),
                      minor_version |-> I16FromLe(At(data, 3), At(data, 4)),
                      patch_version |-> I16FromLe(At(data, 5), At(data, 6)),
                      error_message |-> error_message.value])

QuerySqlResponseDecode(data) ==
    IF data = <<>> THEN Err("Other")
    ELSE IF Len(data) < 13 THEN Panic
    ELSE Ok([type |-> "QuerySql",
             cursor_id |-> I64FromLe(data, 1),
             row_count |-> I32FromLe(At(data, 8), At(data, 9), At(data, 10), At(data, 11)),
             has_more |-> (At(data, 12) = 1)])

PushFront(v, x) == <<x>> \o v

\* Vec::push
Push(v, x) == Append(v, x)

\* The loop of QuerySqlFieldsResponse::decode: todo columns are still to be read,
\* offset is where the next one starts, column_names those read so far.
RECURSIVE ReadColumnNames(_, _, _, _)
ReadColumnNames(data, offset, todo, column_names) ==
    IF todo <= 0 THEN Ok([column_names |-> column_names, offset |-> offset])
    ELSE IF Len(data) < offset + 5 THEN Panic
    ELSE LET column_name_length ==
                 I32FromLe(At(data, offset + 1), At(data, offset + 2),
                           At(data, offset + 3), At(data, offset + 4))
             from == offset + 5
         IN  IF column_name_length < 0 \/ Len(data) < from + column_name_length THEN Panic
             ELSE LET column_name == FromUtf8(Slice(data, from, from + column_name_length))
                  IN  IF column_name.tag # "ok" THEN column_name
                      ELSE ReadColumnNames(data, from + column_name_length, todo - 1,
                                           Push(column_names, column_name.value))

QuerySqlFieldsResponseDecode(data, has_field_names) ==
    IF data = <<>> THEN Err("Other")
    ELSE IF Len(data) < 12 THEN Panic
    ELSE LET cursor_id == I64FromLe(data, 1)
             column_count == I32FromLe(At(data, 8), At(data, 9), At(data, 10), At(data, 11))
         IN  IF has_field_names
             THEN LET read == ReadColumnNames(data, 12, column_count, <<>>)
                  IN  IF read.tag # "ok" THEN read
                      ELSE LET offset == read.value.offset
                           IN  IF Len(data) < offset + 5 THEN Panic
                               ELSE Ok([type |-> "QuerySqlFields",
                                        cursor_id |-> cursor_id,
                                        column_count |-> column_count,
                                        column_names |-> read.value.column_names,
                                        first_page_row_count |->
                                            I32FromLe(At(data, offset), At(data, offset + 1),
                                                      At(data, offset + 2), At(data, offset + 3)),
                                        has_more |-> (At(data, offset + 4) = 1)])
             ELSE IF Len(data) < 17 THEN Panic
             ELSE Ok([type |-> "QuerySqlFields",
                      cursor_id |-> cursor_id,
                      column_count |-> column_count,
                      column_names |-> <<>>,
                      first_page_row_count |->
                          I32FromLe(At(data, 12), At(data, 13), At(data, 14), At(data, 15)),
                      has_more |-> (At(data, 16) = 1)])

QuerySqlPlaceholder == [type |-> "QuerySql", cursor_id |-> I64(0), row_count |-> 0, has_more |-> FALSE]

QuerySqlFieldsPlaceholder ==
    [type |-> "QuerySqlFields", cursor_id |-> I64(0), column_count |-> 0, column_names |-> <<>>,
     first_page_row_count |-> 0, has_more |-> FALSE]

ErrorMessageNoMarker(data) ==
    IF Len(data) < 16 THEN Panic
    ELSE LET error_message_length ==
                 I32FromLe(At(data, 12), At(data, 13), At(data, 14), At(data, 15))
         IN  IF error_message_length < 0 \/ Len(data) < 16 + error_message_length
             THEN Panic
             ELSE FromUtf8(Slice(data, 16, 16 + error_message_length))

\* The error message of a response whose status_code is not 0: the byte at 12
\* (the string type code) is skipped.
ErrorMessage(data) ==
    IF Len(data) < 17 THEN Panic
    ELSE LET error_message_length ==
                 I32FromLe(At(data, 13), At(data, 14), At(data, 15), At(data, 16))
         IN  IF error_message_length < 0 \/ Len(data) < 17 + error_message_length
             THEN Panic
             ELSE FromUtf8(Slice(data, 17, 17 + error_message_length))

\* The envelope both Response decoders read: decodeBody is the outcome of the
\* operation's body decoder on data[12..], placeholder its zero-valued body.
ResponseDecode(data, decodeBody, placeholder) ==
    IF data = <<>> THEN Err("Other")
    ELSE IF Len(data) < 12 THEN Panic
    ELSE LET id == I64FromLe(data, 1)
             status_code == I32FromLe(At(data, 8), At(data, 9), At(data, 10), At(data, 11))
         IN  IF status_code # 0
             THEN LET error_message == ErrorMessage(data)
                  IN  IF error_message.tag # "ok" THEN error_message
                      ELSE Ok([request_id |-> id,
                               status_code |-> status_code,
                               error_message |-> error_message.value,
                               body |-> placeholder])
             ELSE IF decodeBody.tag # "ok" THEN decodeBody
             ELSE Ok([request_id |-> id,
                      status_code |-> status_code,
                      error_message |-> <<>>,
                      body |-> decodeBody.value])

ResponseDecodeQuerySql(data) ==
    ResponseDecode(data, QuerySqlResponseDecode(Slice(data, 12, Len(data))), QuerySqlPlaceholder)

\* The has_field_names a QuerySqlFields response is decoded with: the literal
\* true (in Response::decode_query_sql_fields and in the client's call of it),
\* whatever the include_field_names of the request.
HasFieldNames == TRUE

ResponseDecodeQuerySqlFields(data) ==
    ResponseDecode(data,
                   QuerySqlFieldsResponseDecode(Slice(data, 12, Len(data)), HasFieldNames),
                   QuerySqlFieldsPlaceholder)

(***************************************************************************)
(* Reading one frame off a stream: read_exact of 4 bytes, the length as a  *)
(* little-endian u32, read_exact of that many bytes.  s is what the stream *)
(* still delivers; read_exact fails (UnexpectedEof) when it runs out.  A   *)
(* length of 2^31 or more is past every buffer of the model.               *)
(***************************************************************************)
ReadFrame(s) ==
    IF Len(s) < 4 THEN [tag |-> "err", at |-> "length"]
    ELSE IF s[4] >= 128 THEN [tag |-> "err", at |-> "payload"]
    ELSE LET msg_length == I32FromLe(s[1], s[2], s[3], s[4])
         IN  IF Len(s) < 4 + msg_length THEN [tag |-> "err", at |-> "payload"]
             ELSE [tag |-> "ok",
                   payload |-> SubSeq(s, 5, 4 + msg_length),
                   rest |-> SubSeq(s, 5 + msg_length, Len(s))]

RECURSIVE SplitFrames(_)
SplitFrames(s) ==
    IF s = <<>> THEN [ok |-> TRUE, payloads |-> <<>>]
    ELSE LET f == ReadFrame(s)
         IN  IF f.tag # "ok" THEN [ok |-> FALSE, payloads |-> <<>>]
             ELSE LET more == SplitFrames(f.rest)
                  IN  [ok |-> more.ok, payloads |-> <<f.payload>> \o more.payloads]

(***************************************************************************)
(* Values of the request types, and the layout of the responses a peer     *)
(* sends.                                                                  *)
(***************************************************************************)
HandshakeRequestNew(major_version, minor_version, patch_version, username, password) ==
    [kind |-> "handshake", major_version |-> major_version, minor_version |-> minor_version,
     patch_version |-> patch_version, username |-> username, password |-> password]

QuerySqlRequestNew(table, sql, query_arg_count) ==
    [kind |-> "query_sql", cache_id |-> 0, table |-> table, sql |-> sql,
     query_arg_count |-> query_arg_count, distributed_join |-> FALSE, local_query |-> TRUE,
     replicated_only |-> FALSE, cursor_page_size |-> 1024, timeout_milliseconds |-> I64(30000)]

QuerySqlFieldsRequestNew(schema, sql, query_arg_count, include_field_names) ==
    [kind |-> "query_sql_fields", cache_id |-> 0, schema |-> schema, cursor_page_size |-> 1024,
     max_rows |-> 65535, sql |-> sql, query_arg_count |-> query_arg_count, statement_type |-> 1,
     distributed_join |-> FALSE, local_query |-> FALSE, replicated_only |-> FALSE,
     enforce_join_order |-> FALSE, collocated |-> FALSE, lazy |-> TRUE,
     timeout_milliseconds |-> I64(30000), include_field_names |-> include_field_names]

RECURSIVE Concat(_)
Concat(ss) == IF ss = <<>> THEN <<>> ELSE ss[1] \o Concat(Tail(ss))

\* One column entry: the marker byte, the declared length, the bytes.
Entry(marker, declared, bytes) == <<marker>> \o PutI32(declared) \o bytes

FieldsBody(cursor_id, column_count, entries, first_page_row_count, more) ==
    PutI64(I64(cursor_id)) \o PutI32(column_count) \o entries
        \o PutI32(first_page_row_count) \o <<more>>

SqlBody(cursor_id, row_count, more) ==
    PutI64(I64(cursor_id)) \o PutI32(row_count) \o <<more>>

Envelope(id, status_code, rest) ==
    PutI64(I64(id)) \o PutI32(status_code) \o rest

ErrorRest(marker, declared, bytes) == <<marker>> \o PutI32(declared) \o bytes

NotRun == [tag |-> "not_run"]

EncIdle == encReqs = <<>> /\ encFrames = <<>> /\ encWire = <<>>

DecIdle == decIn = [what |-> "none"] /\ decOut = NotRun

(***************************************************************************)
(* The client (src/src/ignite_client.rs).  Every method takes &mut self,   *)
(* so a call begins only when no other is in flight; a call is suspended   *)
(* at each await and resumes in a later step.  The peer answers every      *)
(* request frame it receives with one response frame.                      *)
(***************************************************************************)
NoCall ==
    [op |-> "none", include_field_names |-> FALSE, id |-> -1, ready |-> FALSE,
     on_failed_stream |-> FALSE, wrote |-> 0, frame |-> <<>>, read_lengths |-> 0,
     read_payloads |-> 0,
     msg_length |-> -1, payload_length |-> -1, decode_path |-> "none",
     result |-> "none", response |-> NotRun]

NewConn(n) ==
    [n |-> n, handshake |-> "Unestablished", handshakes |-> 0, hs_written |-> 0,
     hs_read |-> 0, ids |-> <<>>, failed |-> FALSE, outstanding |-> 0]

\* IgniteClient::new
ClientNew ==
    /\ stream = "None"
    /\ request_id = 0
    /\ pc = "idle"
    /\ call = NoCall
    /\ inbound = <<>>
    /\ conn = NewConn(0)
    /\ allIds = <<>>

BorrowableAlways == pc # "aborted"

\* &mut self: no call is in flight (and none has panicked).
Borrowable == pc = "idle"

FetchAddNoStore(counter) == [value |-> counter, counter |-> counter]

\* AtomicI64::fetch_add(1, SeqCst): the value before, and the counter after.
FetchAdd(counter) == [value |-> counter, counter |-> counter + 1]

Frame(payload) == PutI32(Len(payload)) \o payload

\* What the peer sends back for a request (a server that keeps to the protocol).
Replies(op, id, include_field_names) ==
    CASE op = "handshake" ->
             {<<1>>, <<0>> \o PutI16(2) \o PutI16(13) \o PutI16(0) \o <<98, 97, 100>>}
      [] op = "query_sql" ->
             {Envelope(id, 0, SqlBody(5, 3, 1)),
              Envelope(id, 1, ErrorRest(9, 1, <<101>>))}
      [] op = "query_sql_fields" ->
             {Envelope(id, 0, FieldsBody(5, 1,
                                  IF include_field_names THEN Entry(9, 2, <<73, 68>>) ELSE <<>>,
                                  10, 1)),
              Envelope(id, 1, ErrorRest(9, 1, <<101>>))}

\* A new call's record.
Begin(op, include_field_names, id) ==
    [NoCall EXCEPT !.op = op, !.include_field_names = include_field_names, !.id = id,
                   !.ready = (conn.handshake = "Ready"),
                   !.on_failed_stream = conn.failed,
                   !.result = "pending"]

NotConnectedCounting(op, include_field_names) ==
    /\ stream = "None"
    /\ call' = [Begin(op, include_field_names, -1) EXCEPT !.result = "NotConnected"]
    /\ request_id' = IF op = "handshake" THEN request_id ELSE request_id + 1
    /\ UNCHANGED <<stream, pc, inbound, faults, conn, allIds>>

\* The else branch of every method: no stream.
NotConnected(op, include_field_names) ==
    /\ stream = "None"
    /\ call' = [Begin(op, include_field_names, -1) EXCEPT !.result = "NotConnected"]
    /\ UNCHANGED <<stream, request_id, pc, inbound, faults, conn, allIds>>

\* Where the handshake of the connection stands after a call: Ready once a
\* handshake call has decoded Success, Failed after any other outcome of one.
HandshakeAfter(op, response, before) ==
    IF op # "handshake" THEN before
    ELSE IF response.tag = "ok" /\ response.value.variant = "Success" THEN "Ready"
    ELSE "Failed"

\* An I/O operation fails.
Fault == faults > 0 /\ faults' = faults - 1

\* stream.write_all(&encoded_request).await?: the frame reaches the peer, or the
\* write fails and the call returns the error.
WriteAll(c, encoded_request, newConn) ==
    \/ /\ \E reply \in Replies(c.op, c.id, c.include_field_names) :
             inbound' = inbound \o Frame(reply)
       /\ call' = [c EXCEPT !.wrote = 1, !.frame = encoded_request]
       /\ conn' = [newConn EXCEPT !.outstanding = @ + 1,
                                  !.hs_written = @ + (IF c.op = "handshake" THEN 1 ELSE 0)]
       /\ pc' = "read_length"
       /\ UNCHANGED faults
    \/ /\ Fault
       /\ call' = [c EXCEPT !.result = "Transport"]
       /\ conn' = [newConn EXCEPT !.failed = TRUE,
                                  !.handshake = HandshakeAfter(c.op, Err("Transport"), @)]
       /\ pc' = "idle"
       /\ UNCHANGED inbound

IncludeFieldNames(request) ==
    request.kind = "query_sql_fields" /\ request.include_field_names

Connect ==
    /\ Borrowable
    /\ conn.n < MaxConnects
    /\ \/ /\ stream' = "Some"
          /\ inbound' = <<>>
          /\ conn' = NewConn(conn.n + 1)
          /\ call' = [Begin("connect", FALSE, -1) EXCEPT !.result = "Ok"]
          /\ UNCHANGED faults
       \/ /\ Fault
          /\ call' = [Begin("connect", FALSE, -1) EXCEPT !.result = "Transport"]
          /\ UNCHANGED <<stream, inbound, conn>>
    /\ UNCHANGED <<request_id, pc, allIds, codecVars>>

Handshake(request) ==
    /\ Borrowable
    /\ conn.handshakes < MaxHandshakes
    /\ \/ NotConnected("handshake", FALSE)
       \/ /\ stream = "Some"
          /\ WriteAll(Begin("handshake", FALSE, -1), HandshakeRequestEncode(request),
                      [conn EXCEPT !.handshakes = @ + 1, !.handshake = "Negotiating"])
          /\ UNCHANGED <<stream, request_id, allIds>>
    /\ UNCHANGED codecVars

Query(op, request) ==
    /\ Borrowable
    /\ request_id < MaxRequests
    /\ \/ NotConnected(op, IncludeFieldNames(request))
       \/ /\ stream = "Some"
          /\ LET fetched == FetchAdd(request_id)
                 encoded_request ==
                     RequestEncode(IF op = "query_sql"
                                   THEN NewQuerySql(fetched.value, request)
                                   ELSE NewQuerySqlFields(fetched.value, request))
             IN  /\ request_id' = fetched.counter
                 /\ allIds' = Append(allIds, fetched.value)
                 /\ WriteAll(Begin(op, IncludeFieldNames(request), fetched.value),
                             encoded_request,
                             [conn EXCEPT !.ids = Append(@, fetched.value)])
          /\ UNCHANGED stream
    /\ UNCHANGED codecVars

QuerySql(request) == Query("query_sql", request)

QuerySqlFields(request) == Query("query_sql_fields", request)

\* The call returns (Ok or Err) or panics: it is no longer in flight.
Return(c, newConn) ==
    /\ call' = c
    /\ conn' = [newConn EXCEPT !.outstanding = @ - 1]
    /\ pc' = IF c.result = "Panic" THEN "aborted" ELSE "idle"

\* stream.read_exact(&mut length_buf).await?; msg_length = u32::from_le_bytes(..)
ReadLength ==
    /\ pc = "read_length"
    /\ \/ /\ Len(inbound) >= 4
          /\ inbound[4] < 128
          /\ call' = [call EXCEPT !.read_lengths = @ + 1,
                                  !.msg_length = I32FromLe(inbound[1], inbound[2],
                                                           inbound[3], inbound[4])]
          /\ inbound' = SubSeq(inbound, 5, Len(inbound))
          /\ pc' = "read_payload"
          /\ UNCHANGED <<conn, faults>>
       \/ /\ Fault
          /\ Return([call EXCEPT !.result = "Transport"], [conn EXCEPT !.failed = TRUE])
          /\ UNCHANGED inbound
    /\ UNCHANGED <<stream, request_id, allIds, codecVars>>

\* What each method makes of the frame it read: the decoder's outcome, then
\* the result it returns.
Decoded(op, msg_buf) ==
    CASE op = "handshake" -> HandshakeResponseDecode(msg_buf)
      [] op = "query_sql" -> ResponseDecodeQuerySql(msg_buf)
      [] op = "query_sql_fields" -> ResponseDecodeQuerySqlFields(msg_buf)

\* Which branch of the decoders a response takes: "error" (status_code not 0),
\* or the body decoder, for QuerySqlFields with or without column names.
DecodePath(op, msg_buf) ==
    IF op = "handshake" \/ Len(msg_buf) < 12 THEN "none"
    ELSE IF I32FromLe(At(msg_buf, 8), At(msg_buf, 9), At(msg_buf, 10), At(msg_buf, 11)) # 0
         THEN "error"
    ELSE IF op = "query_sql" THEN "body"
    ELSE IF HasFieldNames THEN "names" ELSE "no_names"

ResultOf(op, response) ==
    IF response.tag = "panic" THEN "Panic"
    ELSE IF response.tag = "err" THEN "Decode"
    ELSE IF op # "handshake" /\ response.value.status_code # 0 THEN "Server"
    ELSE "Ok"

\* stream.read_exact(&mut msg_buf).await?, the decoding and the return.
ReadPayload ==
    /\ pc = "read_payload"
    /\ \/ /\ Len(inbound) >= call.msg_length
          /\ LET msg_buf == SubSeq(inbound, 1, call.msg_length)
                 response == Decoded(call.op, msg_buf)
             IN  Return([call EXCEPT !.read_payloads = @ + 1,
                                     !.payload_length = Len(msg_buf),
                                     !.decode_path = DecodePath(call.op, msg_buf),
                                     !.response = response,
                                     !.result = ResultOf(call.op, response)],
                        [conn EXCEPT !.hs_read = @ + (IF call.op = "handshake" THEN 1 ELSE 0),
                                     !.handshake = HandshakeAfter(call.op, response, @)])
          /\ inbound' = SubSeq(inbound, call.msg_length + 1, Len(inbound))
          /\ UNCHANGED faults
       \/ /\ Fault
          /\ Return([call EXCEPT !.result = "Transport"],
                    [conn EXCEPT !.failed = TRUE,
                                 !.handshake = HandshakeAfter(call.op, Err("Transport"), @)])
          /\ UNCHANGED inbound
    /\ UNCHANGED <<stream, request_id, allIds, codecVars>>

CloseResetting ==
    /\ Borrowable
    /\ stream' = "None"
    /\ \/ /\ call' = [Begin("close", FALSE, -1) EXCEPT !.result = "Ok"]
          /\ UNCHANGED faults
       \/ /\ stream = "Some"
          /\ Fault
          /\ call' = [Begin("close", FALSE, -1) EXCEPT !.result = "Transport"]
    /\ inbound' = <<>>
    /\ conn' = IF stream = "Some" THEN [NewConn(conn.n) EXCEPT !.handshake = "Closed"] ELSE conn
    /\ request_id' = 0
    /\ UNCHANGED <<pc, allIds, codecVars>>

\* self.stream.take(), then shutdown, which may fail.
Close ==
    /\ Borrowable
    /\ stream' = "None"
    /\ \/ /\ call' = [Begin("close", FALSE, -1) EXCEPT !.result = "Ok"]
          /\ UNCHANGED faults
       \/ /\ stream = "Some"
          /\ Fault
          /\ call' = [Begin("close", FALSE, -1) EXCEPT !.result = "Transport"]
    /\ inbound' = <<>>
    /\ conn' = IF stream = "Some" THEN [NewConn(conn.n) EXCEPT !.handshake = "Closed"] ELSE conn
    /\ UNCHANGED <<request_id, pc, allIds, codecVars>>

HandshakeRequests ==
    {HandshakeRequestNew(1, 0, 0, <<>>, <<>>), HandshakeRequestNew(2, 15, 0, <<>>, <<>>)}

QuerySqlRequests == {QuerySqlRequestNew(<<84>>, <<83>>, 0)}

QuerySqlFieldsRequests == {QuerySqlFieldsRequestNew(<<80>>, <<83>>, 0, f) : f \in BOOLEAN}

Init == ClientNew /\ faults = MaxFaults /\ EncIdle /\ DecIdle

Next ==
    \/ Connect
    \/ \E request \in HandshakeRequests : Handshake(request)
    \/ \E request \in QuerySqlRequests : QuerySql(request)
    \/ \E request \in QuerySqlFieldsRequests : QuerySqlFields(request)
    \/ ReadLength
    \/ ReadPayload
    \/ Close

Spec == Init /\ [][Next]_vars

\* The client on a transport that never fails.
InitReliable == ClientNew /\ faults = 0 /\ EncIdle /\ DecIdle

SpecReliable == InitReliable /\ [][Next]_vars

ClientIdle == ClientNew /\ faults = 0

(***************************************************************************)
(* SpecEncode: requests of every kind are encoded and written one after    *)
(* the other to a stream; the state keeps the last two.                    *)
(***************************************************************************)
Str(n) == [i \in 1..n |-> 64 + i]

StrPairs == {<<Str(a), Str(b)>> : a \in 0..MaxStrLen, b \in 0..MaxStrLen}

ShortStrPairs == {p \in StrPairs : Len(p[1]) + Len(p[2]) <= MaxStrLen}

EncodableRequests ==
    {HandshakeRequestNew(v, 0, -1, p[1], p[2]) : v \in {1}, p \in ShortStrPairs}
    \cup {NewQuerySql(id, QuerySqlRequestNew(p[1], p[2], n)) :
              id \in {1}, p \in ShortStrPairs, n \in {0, MaxArgCount}}
    \cup {NewQuerySqlFields(id, QuerySqlFieldsRequestNew(p[1], p[2], n, n = 0)) :
              id \in {0}, p \in ShortStrPairs, n \in {0, MaxArgCount}}

InitEncode == encReqs = <<>> /\ encFrames = <<>> /\ encWire = <<>> /\ DecIdle /\ ClientIdle

LastOf(s) == IF s = <<>> THEN <<>> ELSE <<s[Len(s)]>>

EncodeAndWrite(m) ==
    /\ encReqs' = LastOf(encReqs) \o <<m>>
    /\ encFrames' = LastOf(encFrames) \o <<Encode(m)>>
    /\ encWire' = (IF encFrames = <<>> THEN <<>> ELSE encFrames[Len(encFrames)]) \o Encode(m)
    /\ UNCHANGED decVars
    /\ UNCHANGED clientVars

NextEncode == \E m \in EncodableRequests : EncodeAndWrite(m)

SpecEncode == InitEncode /\ [][NextEncode]_vars

\* C4: the length prefix of every encoded request is the number of bytes that
\* follow it, encode().len() = 4 + length(), and the stream of the frames
\* written splits back into exactly those frames.
C4_LengthPrefixFramesStream ==
    /\ \A i \in 1..Len(encReqs) :
          /\ Len(encFrames[i]) = 4 + Length(encReqs[i])
          /\ encFrames[i][4] < 128
          /\ I32FromLe(encFrames[i][1], encFrames[i][2], encFrames[i][3], encFrames[i][4])
                = Len(encFrames[i]) - 4
    /\ LET split == SplitFrames(encWire)
       IN  /\ split.ok
           /\ Len(split.payloads) = Len(encFrames)
           /\ \A i \in 1..Len(encFrames) :
                 split.payloads[i] = SubSeq(encFrames[i], 5, Len(encFrames[i]))

\* C4's case: two frames on the stream, one of them a QuerySqlFields request
\* with query_arg_count > 0 and non-empty strings.
C4_Witness ==
    /\ Len(encReqs) = 2
    /\ encReqs[1].kind = "handshake"
    /\ encReqs[2].kind = "request"
    /\ encReqs[2].body.kind = "query_sql_fields"
    /\ encReqs[2].body.query_arg_count > 0
    /\ Len(encReqs[2].body.sql) > 0

(***************************************************************************)
(* SpecDecode: each decoder is run once on a response buffer.  The buffers *)
(* are built the way a server lays a response out, from small sets of      *)
(* field values; the malformed ones declare lengths and counts that the    *)
(* bytes do not bear out, and are cut at every length.                     *)
(***************************************************************************)
RECURSIVE SeqsUpTo(_, _)
SeqsUpTo(S, n) ==
    IF n = 0 THEN {<<>>}
    ELSE LET shorter == SeqsUpTo(S, n - 1)
         IN  shorter \cup {Append(q, x) : q \in shorter, x \in S}

Prefixes(b) == {SubSeq(b, 1, n) : n \in 0..Len(b)}

\* 'A', and the two bytes of U+00E9, each of them invalid on its own.
TextBytes == {65, 195, 169}

Texts == SeqsUpTo(TextBytes, MaxMsgLen)

ValidTexts == {t \in Texts : Utf8Valid(t)}

WellFormedEntries ==
    {[marker |-> 9, name |-> t] : t \in ValidTexts} \cup {[marker |-> 0, name |-> <<195, 169>>]}

\* first_page_row_count, the has_more byte, and bytes after it.
Endings == {<<10, 1, <<>>>>, <<-2, 0, <<>>>>, <<10, 2, <<1>>>>, <<0, 1, <<1>>>>}

EntryBytes(es) == Concat([i \in 1..Len(es) |-> Entry(es[i].marker, Len(es[i].name), es[i].name)])

\* An input of a decoder: built holds the field values a well-formed buffer
\* was laid out from.
DecInput(what, data, has_field_names) ==
    [what |-> what, data |-> data, has_field_names |-> has_field_names,
     well_formed |-> FALSE, built |-> [none |-> TRUE]]

\* Well-formed QuerySqlFields success bodies with their column names, and what
\* they were built from.
WellFormedFieldsInputs ==
    {[what |-> "QuerySqlFieldsResponse",
      data |-> FieldsBody(7, Len(es), EntryBytes(es), e[1], e[2]) \o e[3],
      has_field_names |-> TRUE,
      well_formed |-> TRUE,
      built |-> [markers |-> [i \in 1..Len(es) |-> es[i].marker],
                 names |-> [i \in 1..Len(es) |-> es[i].name],
                 rows |-> e[1],
                 more |-> e[2]]] :
        es \in SeqsUpTo(WellFormedEntries, MaxCols), e \in Endings}

\* Responses with a status_code other than 0 that hold the error message they
\* declare (valid UTF-8 or not).
ErrorResponseInputs ==
    {[what |-> what,
      data |-> Envelope(id, st, ErrorRest(marker, Len(t), t) \o tail),
      has_field_names |-> TRUE,
      well_formed |-> TRUE,
      built |-> [request_id |-> id, status_code |-> st, error_message |-> t]] :
        what \in {"decode_query_sql", "decode_query_sql_fields"}, id \in {1, -1},
        st \in {1, -3}, marker \in {9, 0}, t \in Texts, tail \in {<<>>, <<7>>}}

MalformedEntries ==
    {Entry(9, Len(t) + d, t) : t \in {<<65>>, <<195>>}, d \in {0, 1}} \cup {Entry(9, -1, <<>>)}

FieldsBodies ==
    UNION {Prefixes(FieldsBody(-1, c, Concat(es), 3, 1)) :
              c \in (-1)..(MaxCols + 1), es \in SeqsUpTo(MalformedEntries, MaxCols)}

\* Bodies without column names, and with at most one.
BareFieldsBodies ==
    UNION {Prefixes(FieldsBody(-1, c, <<>>, 3, m)) : c \in (-1)..(MaxCols + 1), m \in {0, 1}}

FewFieldsBodies ==
    UNION {Prefixes(FieldsBody(-1, c, Concat(es), 3, 1)) :
              c \in 0..2, es \in SeqsUpTo(MalformedEntries, 1)}

SqlBodies == UNION {Prefixes(SqlBody(c, 3, more)) : c \in {5, -1}, more \in {0, 1, 2}}

ErrorRests ==
    UNION {Prefixes(ErrorRest(9, Len(t) + d, t)) : t \in Texts, d \in {-1, 0, 1}}
    \cup Prefixes(ErrorRest(0, -1, <<65>>))

HandshakeBuffers ==
    UNION {Prefixes(<<flag>> \o PutI16(major) \o PutI16(2) \o PutI16(0) \o t) :
              flag \in {0, 1, 2}, major \in {1, -2}, t \in Texts}

ResponseBuffers(bodies) ==
    Prefixes(Envelope(1, 0, <<>>))
    \cup {Envelope(id, 0, b) : id \in {1}, b \in bodies}
    \cup {Envelope(id, st, r) : id \in {1, -1}, st \in {1, -3}, r \in ErrorRests}

DecodeInputs ==
    {DecInput("HandshakeResponse", b, FALSE) : b \in HandshakeBuffers}
    \cup {DecInput("QuerySqlResponse", b, FALSE) : b \in SqlBodies}
    \cup {DecInput("QuerySqlFieldsResponse", b, TRUE) : b \in FieldsBodies}
    \cup {DecInput("QuerySqlFieldsResponse", b, FALSE) : b \in BareFieldsBodies}
    \cup {DecInput("decode_query_sql", b, FALSE) : b \in ResponseBuffers(SqlBodies)}
    \cup {DecInput("decode_query_sql_fields", b, TRUE) : b \in ResponseBuffers(FewFieldsBodies)}
    \cup WellFormedFieldsInputs
    \cup ErrorResponseInputs

InitDecode == decIn \in DecodeInputs /\ decOut = NotRun /\ EncIdle /\ ClientIdle

RunDecoder(in) ==
    CASE in.what = "HandshakeResponse" -> HandshakeResponseDecode(in.data)
      [] in.what = "QuerySqlResponse" -> QuerySqlResponseDecode(in.data)
      [] in.what = "QuerySqlFieldsResponse" ->
             QuerySqlFieldsResponseDecode(in.data, in.has_field_names)
      [] in.what = "decode_query_sql" -> ResponseDecodeQuerySql(in.data)
      [] in.what = "decode_query_sql_fields" -> ResponseDecodeQuerySqlFields(in.data)

Decode ==
    /\ decOut = NotRun
    /\ decOut' = RunDecoder(decIn)
    /\ UNCHANGED <<decIn, encReqs, encFrames, encWire>>
    /\ UNCHANGED clientVars

NextDecode == Decode

SpecDecode == InitDecode /\ [][NextDecode]_vars

\* C5: on every buffer each decoder returns a decoded value or an error; none
\* reads past the end of the buffer and panics.
C5_DecodeNeverPanics == decOut.tag \in {"not_run", "ok", "err"}

IsResponseDecode == decIn.what \in {"decode_query_sql", "decode_query_sql_fields"}

HasStatus == Len(decIn.data) >= 12

StatusOf(data) == I32FromLe(data[9], data[10], data[11], data[12])

\* C9 as claimed: every buffer whose status_code is not 0 decodes to a Response
\* with the buffer's request_id and status_code, the declared-length bytes
\* after the marker and the length as error_message, and a zero-valued body.
C9_EveryErrorBufferDecodes ==
    (decOut # NotRun /\ IsResponseDecode /\ HasStatus /\ StatusOf(decIn.data) # 0) =>
        /\ decOut.tag = "ok"
        /\ decOut.value.status_code = StatusOf(decIn.data)
        /\ Len(decIn.data) >= 17
        /\ LET declared == I32FromLe(decIn.data[14], decIn.data[15], decIn.data[16], decIn.data[17])
           IN  /\ declared >= 0
               /\ Len(decIn.data) >= 17 + declared
               /\ decOut.value.error_message = SubSeq(decIn.data, 18, 17 + declared)
        /\ decOut.value.body.cursor_id = [hi |-> 0, lo |-> 0]
        /\ ~decOut.value.body.has_more

ZeroBody(what) ==
    IF what = "decode_query_sql"
    THEN [type |-> "QuerySql", cursor_id |-> [hi |-> 0, lo |-> 0], row_count |-> 0,
          has_more |-> FALSE]
    ELSE [type |-> "QuerySqlFields", cursor_id |-> [hi |-> 0, lo |-> 0], column_count |-> 0,
          column_names |-> <<>>, first_page_row_count |-> 0, has_more |-> FALSE]

\* C9, amended: a buffer whose status_code is not 0 and that holds the bytes
\* of the error message it declares decodes to a Response with its request_id
\* and status_code, those bytes as error_message and a zero-valued body when
\* the bytes are valid UTF-8, and to an InvalidData error when they are not.
C9_ErrorResponseDecoded ==
    (decOut # NotRun /\ IsResponseDecode /\ decIn.well_formed) =>
        IF Utf8Valid(decIn.built.error_message)
        THEN decOut = [tag |-> "ok",
                       value |-> [request_id |-> [hi |-> IF decIn.built.request_id < 0
                                                         THEN -1 ELSE 0,
                                                  lo |-> decIn.built.request_id],
                                  status_code |-> decIn.built.status_code,
                                  error_message |-> decIn.built.error_message,
                                  body |-> ZeroBody(decIn.what)]]
        ELSE decOut = [tag |-> "err", kind |-> "InvalidData"]

\* C9's case: an error response with a non-empty message, a negative status
\* and a marker byte other than 9 has been decoded.
C9_Witness ==
    /\ IsResponseDecode
    /\ decIn.well_formed
    /\ decIn.what = "decode_query_sql_fields"
    /\ decIn.built.status_code < 0
    /\ decIn.data[13] = 0
    /\ Len(decIn.built.error_message) = 2
    /\ decOut.tag = "ok"

\* C10: a well-formed QuerySqlFields success body with field names requested
\* and k columns decodes to exactly its k names in wire order, and to the
\* first_page_row_count and has_more of the 5 bytes after the last name.
C10_ColumnNamesInWireOrder ==
    (decOut # NotRun /\ decIn.what = "QuerySqlFieldsResponse" /\ decIn.well_formed) =>
        /\ decOut.tag = "ok"
        /\ decOut.value.column_count = Len(decIn.built.names)
        /\ decOut.value.column_names = decIn.built.names
        /\ decOut.value.first_page_row_count = decIn.built.rows
        /\ decOut.value.has_more = (decIn.built.more = 1)

\* C10's case: two different names, the second after a marker byte other than
\* 9, came out in order with has_more set.
C10_Witness ==
    /\ decIn.what = "QuerySqlFieldsResponse"
    /\ decIn.well_formed
    /\ decOut.tag = "ok"
    /\ Len(decOut.value.column_names) = 2
    /\ decOut.value.column_names[1] = <<65>>
    /\ decOut.value.column_names[2] = <<195, 169>>
    /\ decIn.built.markers[2] = 0
    /\ decIn.built.more = 1
    /\ decOut.value.has_more

\* C11: a non-empty handshake response buffer decodes to Success when its
\* first byte is 1, whatever follows; when its first byte is anything else
\* it decodes to the Failure whose versions are the little-endian i16 values
\* of bytes 1..7 and whose error_message is the bytes from byte 7 to the end,
\* or to a decode error when those bytes are not valid UTF-8.
C11_HandshakeDecodeTotal ==
    (decOut # NotRun /\ decIn.what = "HandshakeResponse" /\ decIn.data # <<>>) =>
        IF decIn.data[1] = 1
        THEN decOut = Ok([variant |-> "Success"])
        ELSE /\ decOut.tag \in {"ok", "err"}
             /\ Len(decIn.data) >= 7
             /\ LET tail == SubSeq(decIn.data, 8, Len(decIn.data))
                IN  IF Utf8Valid(tail)
                    THEN decOut =
                         Ok([variant |-> "Failure",
                             major_version |-> I16FromLe(decIn.data[2], decIn.data[3]),
                             minor_version |-> I16FromLe(decIn.data[4], decIn.data[5]),
                             patch_version |-> I16FromLe(decIn.data[6], decIn.data[7]),
                             error_message |-> tail])
                    ELSE decOut = Err("InvalidData")

(***************************************************************************)
(* Properties of the client, checked under Spec.                           *)
(***************************************************************************)
IsQuery(c) == c.op \in {"query_sql", "query_sql_fields"}

IsExchange(c) == c.op \in {"handshake", "query_sql", "query_sql_fields"}

\* C1: a query call made while the handshake has not completed with Success
\* is refused with an error and writes no request frame.
C1_QueryRefusedUntilReady ==
    (IsQuery(call) /\ ~call.ready) =>
        (call.result \in {"NotReady", "NotConnected"} /\ call.wrote = 0 /\ call.frame = <<>>)

\* C2: on one connection (from a connect() to the next connect() or close())
\* at most one handshake request frame is written and at most one handshake
\* response frame is read.
C2_OneHandshakeExchange == conn.hs_written <= 1 /\ conn.hs_read <= 1

UpTo(n) == [i \in 1..n |-> i - 1]

\* C3 as claimed: the request ids allocated on one connection are 0, 1, ...,
\* N-1 in call order.
C3_IdsOfConnectionFromZero == conn.ids = UpTo(Len(conn.ids))

\* C3, amended: the request ids allocated on one client since new() are 0, 1,
\* ..., N-1 in call order, no two alike, and those allocated on the current
\* connection are the last of them: consecutive, starting at the number of
\* ids allocated before it.
C3_IdsOfClientFromZero ==
    /\ allIds = UpTo(Len(allIds))
    /\ \A i, j \in 1..Len(allIds) : i # j => allIds[i] # allIds[j]
    /\ Len(conn.ids) <= Len(allIds)
    /\ conn.ids = SubSeq(allIds, Len(allIds) - Len(conn.ids) + 1, Len(allIds))
    /\ (IsQuery(call) /\ call.result # "NotConnected") => call.id = allIds[Len(allIds)]

\* C3's case: a second connection of the client on which a query call was
\* given the id 1, after a call of the other kind was given 0 on the first.
C3_Witness ==
    /\ conn.n = 2
    /\ allIds = <<0, 1>>
    /\ conn.ids = <<1>>
    /\ call.op = "query_sql_fields"
    /\ call.id = 1
    /\ call.wrote = 1

\* C6: the response of a query_sql_fields call is decoded with the
\* include_field_names of the request sent, and without field names the
\* decoded column_names is empty.
C6_DecodePathFollowsRequest ==
    (call.op = "query_sql_fields" /\ call.read_payloads = 1) =>
        /\ call.decode_path = "names" => call.include_field_names
        /\ call.decode_path = "no_names" => ~call.include_field_names
        /\ (call.result = "Ok" /\ ~call.include_field_names) =>
               call.response.value.body.column_names = <<>>

\* C7: at most one request is outstanding on a connection, and a handshake or
\* query call that returns successfully has written one request frame and read
\* one response frame: its 4-byte length, then that many bytes.
C7_OneRequestOutstanding ==
    /\ conn.outstanding \in {0, 1}
    /\ (conn.outstanding = 1) <=> (pc \in {"read_length", "read_payload"})
    /\ call.wrote <= 1 /\ call.read_lengths <= call.wrote /\ call.read_payloads <= call.read_lengths
    /\ (IsExchange(call) /\ call.result = "Ok") =>
           /\ call.wrote = 1
           /\ ReadFrame(call.frame).tag = "ok"
           /\ ReadFrame(call.frame).rest = <<>>
           /\ call.read_lengths = 1
           /\ call.read_payloads = 1
           /\ call.payload_length = call.msg_length

\* C7's case: a query_sql_fields call, begun after a handshake call on the same
\* connection, has returned successfully.
C7_Witness ==
    /\ pc = "idle"
    /\ call.op = "query_sql_fields"
    /\ call.result = "Ok"
    /\ call.msg_length > 12
    /\ conn.hs_read = 1
    /\ conn.outstanding = 0

\* C8: once an operation has failed with a transport error on a stream, no
\* later operation writes to or reads from that stream.
C8_FailedStreamDiscarded ==
    call.on_failed_stream =>
        (call.wrote = 0 /\ call.read_lengths = 0 /\ call.read_payloads = 0)

\* C12: while the client has no stream, handshake, query_sql and
\* query_sql_fields return NotConnected, write and read nothing and change
\* nothing of the client (the request-id counter stays); close() then returns
\* Ok and changes nothing; and after every close(), also one whose shutdown
\* fails, the stream is absent.
C12_NoStreamNoEffect ==
    [][ /\ (stream = "None" /\ IsExchange(call')) =>
              /\ call'.result = "NotConnected"
              /\ call'.wrote = 0
              /\ call'.frame = <<>>
              /\ call'.read_lengths = 0
              /\ call'.read_payloads = 0
              /\ UNCHANGED <<stream, request_id, pc, inbound, faults, conn, allIds>>
        /\ (stream = "None" /\ call'.op = "close") =>
              /\ call'.result = "Ok"
              /\ UNCHANGED <<stream, request_id, pc, inbound, faults, conn, allIds>>
        /\ (call'.op = "close") => stream' = "None"
      ]_vars

\* C12's case: a query call was refused after a close() that ended a
\* connection on which a request id had been allocated.
C12_Witness ==
    /\ stream = "None"
    /\ IsQuery(call)
    /\ call.result = "NotConnected"
    /\ conn.handshake = "Closed"
    /\ request_id = 1
    /\ allIds = <<0>>

\* C13: over the lifetime of one client the request-id counter never
\* decreases and is never reset: a step advances it by exactly one when it is
\* a query call made while a stream is present (whatever becomes of the call
\* afterwards) and leaves it alone otherwise; every request frame written
\* carries the id allocated by its call, the last allocated so far, and the
\* ids allocated are strictly increasing, so each request frame carries an id
\* greater than that of every request frame written before it, on this
\* connection or an earlier one.
C13_CounterOnlyAdvancesByQueries ==
    /\ [](/\ request_id >= 0
          /\ \A i, j \in 1..Len(allIds) : i < j => allIds[i] < allIds[j]
          /\ \A i \in 1..Len(allIds) : allIds[i] < request_id
          /\ (IsQuery(call) /\ call.wrote = 1) =>
                /\ I64FromLe(call.frame, 7) = I64(call.id)
                /\ call.id = allIds[Len(allIds)])
    /\ [][ /\ request_id' >= request_id
           /\ request_id' = IF pc = "idle" /\ stream = "Some" /\ IsQuery(call')
                             THEN request_id + 1
                             ELSE request_id
         ]_vars

\* C13's case: after a query call whose frame carried the id 0 and a
\* close()/connect() cycle, a query call on the second connection has written
\* a frame that carries the id 1, and its response has come with a non-zero
\* status.
C13_Witness ==
    /\ conn.n = 2
    /\ allIds = <<0, 1>>
    /\ request_id = 2
    /\ IsQuery(call)
    /\ call.wrote = 1
    /\ I64FromLe(call.frame, 7) = I64(1)
    /\ call.result = "Server"

====
